---- MODULE Spec2Model ----
(***************************************************************************)
(* Jippity: the session state machine of JippityHandler                    *)
(* (jippity-handler.ts), its pending-message queue (queue.ts) and the run  *)
(* loop main() of index.ts, as a state machine.                            *)
(*                                                                         *)
(* JavaScript runs one task at a time, so every action below is one task   *)
(* of the event loop, taken as a whole: the delivery of one websocket      *)
(* text, the settling of one completion request (with the continuation of  *)
(* main() when main awaits it), or one wake-up of main() from sleep().     *)
(***************************************************************************)
EXTENDS Integers, Sequences, FiniteSets, TLC

\* ------------------------------------------------------------------ bounds
MaxMsgs == 3       \* texts the transport delivers in one run (Spec)
MaxWideMsgs == 2   \* texts the transport delivers in one run (SpecWide)
MaxIdleCalls == 1  \* unprompted invocations the run loop makes in one run
MaxRegMsgs == 3    \* texts delivered in one run (SpecReg), its startup included
MaxForcedMsgs == 5 \* texts delivered in one run (SpecForced), the three before its start included

\* --------------------------------------------------------------- constants
NULL == 0          \* pendingActionId: string | null = null

WAITING == "state/waiting-for-game-startup"
IDLE == "state/idle"
THINKING == "state/thinking"
PENDING_ACTION == "state/pending-action"
PENDING_FORCED_ACTION == "state/pending-forced-action"
EXITING == "state/exiting"

NoForce == [command |-> "none"]   \* callOpenAI() called without an argument

SYSTEM_MESSAGE == [role |-> "system", content |-> <<"You are Jippity">>]

\* ------------------------------------------------------------------- state
VARIABLES
    state,            \* JippityHandler.state
    game,             \* JippityHandler.game
    actions,          \* JippityHandler.actions
    openaiMessages,   \* JippityHandler.openaiMessages (the conversation log)
    pendingActionId,  \* JippityHandler.pendingActionId
    messageQueue,     \* JippityHandler.messageQueue
    inflight,         \* completion requests sent and not yet settled
    calls,            \* number of completion requests sent so far
    sent,             \* action messages handed to send(), in order
    mainPc,           \* where main() stands
    awaiting,         \* the request main() awaits (0: none)
    alive,            \* the process is running
    nextId,           \* next tool-call id the completion service issues
    received,         \* texts delivered so far
    idleCalls,        \* unprompted invocations made so far
    enqueued,         \* history: every message offered to the queue
    dequeued,         \* history: every message polled from the queue
    ledger,           \* history: the actions registered and not unregistered since
    last              \* history: the task that ran last

vars == <<state, game, actions, openaiMessages, pendingActionId, messageQueue,
          inflight, calls, sent, mainPc, awaiting, alive, nextId, received,
          idleCalls, enqueued, dequeued, ledger, last>>

\* ------------------------------------------------------------- wire format
\* A text on the wire, as JSON.parse and the ajv validators see it:
\* json: it parses; command: its "command" property ("" when absent);
\* shape: the validator of that command accepts it; body: the parsed object.
Commands == {"startup", "context", "actions/register", "actions/unregister",
             "actions/force", "action/result", "action"}

Text(body) == [json |-> TRUE, command |-> body.command, shape |-> TRUE, body |-> body]

StartupMessage(g) == [command |-> "startup", game |-> g]
ContextMessage(silent) ==
    [command |-> "context", game |-> "g1", data |-> [message |-> "ctx", silent |-> silent]]
RegisterActionsMessage(as) ==
    [command |-> "actions/register", game |-> "g1", data |-> [actions |-> as]]
UnregisterActionsMessage(names) ==
    [command |-> "actions/unregister", game |-> "g1", data |-> [action_names |-> names]]
ForceActionMessage(st, eph, names) ==
    [command |-> "actions/force", game |-> "g1",
     data |-> [state |-> st, query |-> "q", ephemeral_context |-> eph, action_names |-> names]]
ActionResultMessage(id, success, msg) ==
    [command |-> "action/result", game |-> "g1",
     data |-> [id |-> id, success |-> success, message |-> msg]]
ActionMessage(id, name, data) ==
    [command |-> "action", data |-> [id |-> id, name |-> name, data |-> data]]

Action(name, schema) == [name |-> name, description |-> "d", schema |-> schema]

\* Names that (obj.command in Validators) finds although Validators does not
\* define them: they are inherited from Object.prototype.  The "validator"
\* is then a built-in: Object and toString return a truthy value for any
\* obj, valueOf throws a TypeError when called without a receiver.
InheritedAccepting == {"constructor", "toString"}
InheritedThrowing == {"valueOf"}

\* deserializeMessage: Result<Message, MessageDeserializationError>; threw:
\* an exception left it instead.
deserializeMessage(json) ==
    IF ~json.json
    THEN [ok |-> FALSE, threw |-> FALSE, error |-> "Message is not valid JSON"]
    ELSE IF json.command = ""
    THEN [ok |-> FALSE, threw |-> FALSE, error |-> "missing command"]
    ELSE IF json.command \notin Commands \cup InheritedAccepting \cup InheritedThrowing
    THEN [ok |-> FALSE, threw |-> FALSE, error |-> "Unknown command"]
    ELSE IF json.command \in InheritedThrowing
    THEN [ok |-> FALSE, threw |-> TRUE, error |-> "TypeError"]
    ELSE IF json.command \in InheritedAccepting
    THEN [ok |-> TRUE, threw |-> FALSE, value |-> json.body]
    ELSE IF ~json.shape
    THEN [ok |-> FALSE, threw |-> FALSE, error |-> "Validation failed"]
    ELSE [ok |-> TRUE, threw |-> FALSE, value |-> json.body]

\* validateActionSchema: ok when there is no schema or an empty one,
\* otherwise what ajv.validateSchema says of it.
validateActionSchema(action) ==
    IF action.schema \in {"absent", "empty"} THEN TRUE
    ELSE action.schema = "valid"

\* ------------------------------------------------------------------- queue
offer(queue, item) == Append(queue, item)

\* Mutant of poll: takes the item from the wrong end.
poll_last(queue) ==
    [item |-> queue[Len(queue)], queue |-> SubSeq(queue, 1, Len(queue) - 1)]

poll(queue) == [item |-> Head(queue), queue |-> Tail(queue)]

isNotEmpty(queue) == Len(queue) > 0

\* ----------------------------------------------------------------- utils.ts
\* Mutant of convertForcedActionMessageToOpenAIMessage: the context is
\* included only for an ephemeral force.
convertForcedActionMessageToOpenAIMessage_ephemeralOnly(forcedAction, actionState) ==
    LET context ==
            IF forcedAction.data.ephemeral_context
            THEN <<forcedAction.data.query>> \o
                 (IF forcedAction.data.state # "absent"
                  THEN <<"Game state", forcedAction.data.state>> ELSE <<>>)
            ELSE <<>>
    IN [role |-> "user",
        content |-> context \o <<"You must use one of the following tools",
                                   forcedAction.data.action_names>>]

\* The content is kept as the list of the parts the code concatenates.
convertForcedActionMessageToOpenAIMessage(forcedAction, actionState) ==
    LET context ==
            IF forcedAction.data.ephemeral_context \/ actionState = "before-result"
            THEN <<forcedAction.data.query>> \o
                 (IF forcedAction.data.state # "absent"
                  THEN <<"Game state", forcedAction.data.state>> ELSE <<>>)
            ELSE <<>>
    IN [role |-> "user",
        content |-> context \o <<"You must use one of the following tools",
                                   forcedAction.data.action_names>>]

\* convertActionToTool: the parameters are the schema, or {} when the action
\* has none.
convertActionToTool(action) ==
    [type |-> "function", name |-> action.name, description |-> action.description,
     parameters |-> IF action.schema = "absent" THEN "empty" ELSE action.schema]

\* JSON.stringify(content) of addActionResult: the message key is written
\* only when message.data.message was truthy.
stringifyResult(success, message) ==
    IF message \notin {"absent", ""}
    THEN <<<<"success", success>>, <<"message", message>>>>
    ELSE <<<<"success", success>>>>

\* ------------------------------------------------------- the handler object
\* The fields of JippityHandler, with what a task leaves behind it:
\* threw: an exception is propagating out of the current call;
\* rejected: callOpenAI returned a rejected promise (its own assertion);
\* drained: the messages processMessageQueue handled in this task, each with
\* the state it was handled in; enqueued, dequeued, ledger: the histories.
Handler ==
    [state |-> state, game |-> game, actions |-> actions,
     openaiMessages |-> openaiMessages, pendingActionId |-> pendingActionId,
     messageQueue |-> messageQueue, inflight |-> inflight, calls |-> calls,
     sent |-> sent, threw |-> FALSE, rejected |-> FALSE, drained |-> <<>>,
     enqueued |-> enqueued, dequeued |-> dequeued, ledger |-> ledger]

IsPending(h) == h.state.id \in {PENDING_ACTION, PENDING_FORCED_ACTION}

\* The tools of a request: every registered action, converted (an empty
\* list stands for the undefined the code sends when there is none).
toolList(registered) ==
    [i \in 1..Len(registered) |-> convertActionToTool(registered[i])]

\* callOpenAI, up to the point where the request is sent.  It is an async
\* function: a failed assertion rejects the promise it returns.  It reads
\* neither the state (beyond that assertion) nor pendingActionId; the request
\* is kept with the log and the tools it carries and the force message it
\* was called with; forced is history: the actions/force message whose
\* handling sent the request (handleForcedAction sets it).
callOpenAI(h, forceActionMessage) ==
    IF h.state.id = WAITING
    THEN [h EXCEPT !.rejected = TRUE]
    ELSE [h EXCEPT !.state = [id |-> THINKING],
                   !.calls = @ + 1,
                   !.inflight = Append(@, [call |-> h.calls + 1,
                                           messages |-> h.openaiMessages,
                                           tools |-> toolList(h.actions),
                                           forceActionMessage |-> forceActionMessage,
                                           forced |-> NoForce])]

\* Mutant of registerLoop: the schema is not validated.
RECURSIVE registerLoop_ignoreSchema(_, _)
registerLoop_ignoreSchema(registered, batch) ==
    IF batch = <<>> THEN registered
    ELSE LET action == Head(batch) IN
         IF \E i \in 1..Len(registered) : registered[i].name = action.name
         THEN registerLoop_ignoreSchema(registered, Tail(batch))
         ELSE registerLoop_ignoreSchema(Append(registered, action), Tail(batch))

\* Mutant of registerLoop: the loop ends at the first entry it skips.
RECURSIVE registerLoop_stopAtSkip(_, _)
registerLoop_stopAtSkip(registered, batch) ==
    IF batch = <<>> THEN registered
    ELSE LET action == Head(batch) IN
         IF \E i \in 1..Len(registered) : registered[i].name = action.name
         THEN registered
         ELSE IF ~validateActionSchema(action)
         THEN registered
         ELSE registerLoop_stopAtSkip(Append(registered, action), Tail(batch))

\* Mutant of registerLoop: the name is not looked up among the registered.
RECURSIVE registerLoop_noNameCheck(_, _)
registerLoop_noNameCheck(registered, batch) ==
    IF batch = <<>> THEN registered
    ELSE LET action == Head(batch) IN
         IF ~validateActionSchema(action)
         THEN registerLoop_noNameCheck(registered, Tail(batch))
         ELSE registerLoop_noNameCheck(Append(registered, action), Tail(batch))

\* registerActions, the loop: an entry whose name is registered, or whose
\* schema does not validate, is skipped (continue); any other is pushed.
RECURSIVE registerLoop(_, _)
registerLoop(registered, batch) ==
    IF batch = <<>> THEN registered
    ELSE LET action == Head(batch) IN
         IF \E i \in 1..Len(registered) : registered[i].name = action.name
         THEN registerLoop(registered, Tail(batch))
         ELSE IF ~validateActionSchema(action)
         THEN registerLoop(registered, Tail(batch))
         ELSE registerLoop(Append(registered, action), Tail(batch))

\* Mutant of registerActions: an invocation follows the registration.
registerActions_thenCall(h, batch) ==
    callOpenAI([h EXCEPT !.actions = registerLoop(@, batch)], NoForce)

registerActions(h, batch) == [h EXCEPT !.actions = registerLoop(@, batch)]

includes(names, name) == \E i \in 1..Len(names) : names[i] = name

\* Mutant of unregisterActions: the filter keeps the named actions.
unregisterActions_inverted(h, action_names) ==
    [h EXCEPT !.actions = SelectSeq(@, LAMBDA action : includes(action_names, action.name))]

unregisterActions(h, action_names) ==
    [h EXCEPT !.actions = SelectSeq(@, LAMBDA action : ~includes(action_names, action.name))]

handleForcedAction(h, message) ==
    LET openAIMessage == convertForcedActionMessageToOpenAIMessage(message, "before-result")
        h1 == callOpenAI([h EXCEPT !.openaiMessages = Append(@, openAIMessage)], NoForce)
    IN IF h1.rejected THEN h1
       ELSE [h1 EXCEPT !.inflight[Len(h1.inflight)].forced = message]

addContext(h, message, silent) ==
    IF h.pendingActionId # NULL
    THEN [h EXCEPT !.threw = TRUE]
    ELSE LET h1 == [h EXCEPT !.openaiMessages =
                                 Append(@, [role |-> "user", content |-> <<message>>])]
         IN IF ~silent THEN callOpenAI(h1, NoForce) ELSE h1

\* Mutant of addActionResult: a result that reports a failure leaves the
\* action pending, for a retry.
addActionResult_failurePends(h, message) ==
    IF ~IsPending(h)
    THEN [h EXCEPT !.threw = TRUE]
    ELSE IF h.state.action.data.id # message.data.id
    THEN h
    ELSE IF ~message.data.success
    THEN h
    ELSE LET actionResult ==
                 [role |-> "tool", tool_call_id |-> message.data.id,
                  content |-> stringifyResult(message.data.success, message.data.message)]
         IN callOpenAI([h EXCEPT !.openaiMessages = Append(@, actionResult),
                                 !.pendingActionId = NULL], NoForce)

\* Mutant of addActionResult: the id of the result is not compared.
addActionResult_anyId(h, message) ==
    IF ~IsPending(h)
    THEN [h EXCEPT !.threw = TRUE]
    ELSE LET actionResult ==
                 [role |-> "tool", tool_call_id |-> message.data.id,
                  content |-> stringifyResult(message.data.success, message.data.message)]
         IN callOpenAI([h EXCEPT !.openaiMessages = Append(@, actionResult),
                                 !.pendingActionId = NULL], NoForce)

\* Mutant of addActionResult: pendingActionId is not cleared.
addActionResult_keepPending(h, message) ==
    IF ~IsPending(h)
    THEN [h EXCEPT !.threw = TRUE]
    ELSE IF h.state.action.data.id # message.data.id
    THEN h
    ELSE LET actionResult ==
                 [role |-> "tool", tool_call_id |-> message.data.id,
                  content |-> stringifyResult(message.data.success, message.data.message)]
         IN callOpenAI([h EXCEPT !.openaiMessages = Append(@, actionResult)], NoForce)

addActionResult(h, message) ==
    IF ~IsPending(h)
    THEN [h EXCEPT !.threw = TRUE]
    ELSE IF h.state.action.data.id # message.data.id
    THEN h
    ELSE LET actionResult ==
                 [role |-> "tool", tool_call_id |-> message.data.id,
                  content |-> stringifyResult(message.data.success, message.data.message)]
         IN callOpenAI([h EXCEPT !.openaiMessages = Append(@, actionResult),
                                 !.pendingActionId = NULL], NoForce)

\* Mutant of rejectedBeforeStartup: registration is let through.
rejectedBeforeStartup_allowRegister(h, message) ==
    /\ h.state.id = WAITING
    /\ message.command # "startup"
    /\ message.command # "actions/register"

\* handleMessage, first guard: before startup only startup is accepted.
rejectedBeforeStartup(h, message) ==
    h.state.id = WAITING /\ message.command # "startup"

\* Mutant of rejectedWhilePending: actions/register is not excepted.
rejectedWhilePending_noRegister(h, message) ==
    /\ IsPending(h)
    /\ message.command # "action/result"
    /\ message.command # "actions/unregister"

\* Mutant of rejectedWhilePending: startup is let through.
rejectedWhilePending_allowStartup(h, message) ==
    /\ IsPending(h)
    /\ message.command # "action/result"
    /\ message.command # "actions/register"
    /\ message.command # "actions/unregister"
    /\ message.command # "startup"

\* handleMessage, second guard: while an action is pending only
\* action/result, actions/register and actions/unregister are accepted.
rejectedWhilePending(h, message) ==
    /\ IsPending(h)
    /\ message.command # "action/result"
    /\ message.command # "actions/register"
    /\ message.command # "actions/unregister"

\* Mutant of handleStartup: the log starts afresh with the new game.
handleStartup_resetLog(h, message) ==
    callOpenAI([h EXCEPT !.state = [id |-> IDLE],
                         !.game = message.game,
                         !.actions = <<>>,
                         !.openaiMessages =
                             <<SYSTEM_MESSAGE,
                               [role |-> "user",
                                content |-> <<"You are now playing", message.game>>]>>],
               NoForce)

\* Mutant of handleStartup: the game is not recorded.
handleStartup_noGame(h, message) ==
    callOpenAI([h EXCEPT !.state = [id |-> IDLE],
                         !.actions = <<>>,
                         !.openaiMessages =
                             Append(@, [role |-> "user",
                                        content |-> <<"You are now playing",
                                                      message.game>>])],
               NoForce)

\* Mutant of handleStartup: the registered actions are kept.
handleStartup_keepActions(h, message) ==
    callOpenAI([h EXCEPT !.state = [id |-> IDLE],
                         !.game = message.game,
                         !.openaiMessages =
                             Append(@, [role |-> "user",
                                        content |-> <<"You are now playing",
                                                      message.game>>])],
               NoForce)

\* handleMessage, case "startup".
handleStartup(h, message) ==
    callOpenAI([h EXCEPT !.state = [id |-> IDLE],
                         !.game = message.game,
                         !.actions = <<>>,
                         !.openaiMessages =
                             Append(@, [role |-> "user",
                                        content |-> <<"You are now playing",
                                                      message.game>>])],
               NoForce)

\* The ledger after a message got past the guards of handleMessage: what
\* the protocol says of the action set, kept as a set of actions.  An entry
\* of a batch is registered when its schema passes, its name is not in the
\* ledger and no earlier entry of the batch with that name has a schema
\* that passes; unregistering takes out the named ones; startup empties.
Registers(held, batch) ==
    {batch[i] : i \in {k \in 1..Len(batch) :
        /\ validateActionSchema(batch[k])
        /\ \A a \in held : a.name # batch[k].name
        /\ \A j \in 1..(k - 1) :
              batch[j].name = batch[k].name => ~validateActionSchema(batch[j])}}

Ledger(held, message) ==
    CASE message.command = "startup" -> {}
      [] message.command = "actions/register" ->
           held \cup Registers(held, message.data.actions)
      [] message.command = "actions/unregister" ->
           {a \in held : \A i \in 1..Len(message.data.action_names) :
                            message.data.action_names[i] # a.name}
      [] OTHER -> held

handleMessage(h, message) ==
    IF rejectedBeforeStartup(h, message) THEN h
    ELSE IF rejectedWhilePending(h, message) THEN h
    ELSE LET h0 == [h EXCEPT !.ledger = Ledger(@, message)] IN
         CASE message.command = "startup" -> handleStartup(h0, message)
           [] message.command = "actions/register" ->
                registerActions(h0, message.data.actions)
           [] message.command = "actions/unregister" ->
                unregisterActions(h0, message.data.action_names)
           [] message.command = "context" ->
                addContext(h0, message.data.message, message.data.silent)
           [] message.command = "actions/force" -> handleForcedAction(h0, message)
           [] message.command = "action/result" -> addActionResult(h0, message)
           [] message.command = "action" -> h0
           [] OTHER -> h0

\* Mutant of receiveMessage: Thinking is among the states that handle.
receiveMessage_handleWhileThinking(h, dataStr) ==
    LET messageResult == deserializeMessage(dataStr) IN
    IF messageResult.threw THEN [h EXCEPT !.threw = TRUE]
    ELSE IF ~messageResult.ok THEN h
    ELSE IF h.state.id \in {WAITING, IDLE, THINKING, PENDING_ACTION, PENDING_FORCED_ACTION}
    THEN handleMessage(h, messageResult.value)
    ELSE [h EXCEPT !.messageQueue = offer(@, messageResult.value),
                   !.enqueued = Append(@, messageResult.value)]

\* Mutant of receiveMessage: the pending states queue, like Thinking.
receiveMessage_queueWhilePending(h, dataStr) ==
    LET messageResult == deserializeMessage(dataStr) IN
    IF messageResult.threw THEN [h EXCEPT !.threw = TRUE]
    ELSE IF ~messageResult.ok THEN h
    ELSE IF h.state.id \in {WAITING, IDLE}
    THEN handleMessage(h, messageResult.value)
    ELSE [h EXCEPT !.messageQueue = offer(@, messageResult.value),
                   !.enqueued = Append(@, messageResult.value)]

\* receiveMessage: a text that does not decode is dropped (an exception out
\* of deserializeMessage goes on to the caller); a message is handled at
\* once in the four listed states and queued in every other.
receiveMessage(h, dataStr) ==
    LET messageResult == deserializeMessage(dataStr) IN
    IF messageResult.threw THEN [h EXCEPT !.threw = TRUE]
    ELSE IF ~messageResult.ok THEN h
    ELSE IF h.state.id \in {WAITING, IDLE, PENDING_ACTION, PENDING_FORCED_ACTION}
    THEN handleMessage(h, messageResult.value)
    ELSE [h EXCEPT !.messageQueue = offer(@, messageResult.value),
                   !.enqueued = Append(@, messageResult.value)]

\* processMessageQueue: polls and handles until the queue is empty; an
\* exception out of handleMessage leaves the loop with the rest still queued.
RECURSIVE processMessageQueue(_)
processMessageQueue(h) ==
    IF ~isNotEmpty(h.messageQueue) \/ h.threw THEN h
    ELSE LET polled == poll(h.messageQueue)
                 h1 == [h EXCEPT !.messageQueue = polled.queue,
                             !.dequeued = Append(@, polled.item),
                             !.drained = Append(@, [message |-> polled.item,
                                                    pre |-> h.state.id])]
         IN processMessageQueue(handleMessage(h1, polled.item))

\* ------------------------------------------------- the completion service
\* What openai.chat.completions.create settles with: error is a rejected
\* promise (timeout, non-2xx, malformed response); otherwise choices is the
\* number of choices and the rest describes choices[0].
Response(finish_reason, content, tool_calls) ==
    [error |-> FALSE, choices |-> 1, finish_reason |-> finish_reason,
     content |-> content, tool_calls |-> tool_calls]

ToolCall(id, type) == [id |-> id, type |-> type, name |-> "a", arguments |-> "{}"]

\* Mutant of onResponse: the message of a stop is pushed on the log.
onResponse_logStop(h, forceActionMessage, response) ==
    LET exiting == [h EXCEPT !.state = [id |-> EXITING,
                                        reason |-> "Error calling OpenAI API"]]
    IN
    IF response.error THEN exiting
    ELSE IF response.choices # 1 THEN exiting
    ELSE IF response.finish_reason = "stop"
    THEN IF response.content = "" THEN exiting
         ELSE [h EXCEPT !.state = [id |-> IDLE],
                        !.openaiMessages =
                            Append(@, [role |-> "assistant",
                                       content |-> response.content,
                                       tool_calls |-> <<>>])]
    ELSE IF response.finish_reason = "tool_calls"
    THEN IF Len(response.tool_calls) < 1 THEN exiting
         ELSE LET toolCall == response.tool_calls[1]
                  action == ActionMessage(toolCall.id, toolCall.name, toolCall.arguments)
              IN IF toolCall.type # "function" THEN exiting
                 ELSE [h EXCEPT
                         !.pendingActionId = toolCall.id,
                         !.state = IF forceActionMessage # NoForce
                                   THEN [id |-> PENDING_FORCED_ACTION, action |-> action,
                                         forcedAction |-> forceActionMessage]
                                   ELSE [id |-> PENDING_ACTION, action |-> action],
                         !.openaiMessages =
                             Append(@, [role |-> "assistant",
                                        content |-> response.content,
                                        tool_calls |-> <<toolCall>>]),
                         !.sent = Append(@, action)]
    ELSE exiting

\* Mutant of onResponse: a stop without content is taken like any stop.
onResponse_emptyStop(h, forceActionMessage, response) ==
    LET exiting == [h EXCEPT !.state = [id |-> EXITING,
                                        reason |-> "Error calling OpenAI API"]]
    IN
    IF response.error THEN exiting
    ELSE IF response.choices # 1 THEN exiting
    ELSE IF response.finish_reason = "stop"
    THEN [h EXCEPT !.state = [id |-> IDLE]]
    ELSE IF response.finish_reason = "tool_calls"
    THEN IF Len(response.tool_calls) < 1 THEN exiting
         ELSE LET toolCall == response.tool_calls[1]
                  action == ActionMessage(toolCall.id, toolCall.name, toolCall.arguments)
              IN IF toolCall.type # "function" THEN exiting
                 ELSE [h EXCEPT
                         !.pendingActionId = toolCall.id,
                         !.state = IF forceActionMessage # NoForce
                                   THEN [id |-> PENDING_FORCED_ACTION, action |-> action,
                                         forcedAction |-> forceActionMessage]
                                   ELSE [id |-> PENDING_ACTION, action |-> action],
                         !.openaiMessages =
                             Append(@, [role |-> "assistant",
                                        content |-> response.content,
                                        tool_calls |-> <<toolCall>>]),
                         !.sent = Append(@, action)]
    ELSE exiting

\* Mutant of onResponse: choice.message is pushed with all its tool calls.
onResponse_logAll(h, forceActionMessage, response) ==
    LET exiting == [h EXCEPT !.state = [id |-> EXITING,
                                        reason |-> "Error calling OpenAI API"]]
    IN
    IF response.error THEN exiting
    ELSE IF response.choices # 1 THEN exiting
    ELSE IF response.finish_reason = "stop"
    THEN IF response.content = "" THEN exiting
         ELSE [h EXCEPT !.state = [id |-> IDLE]]
    ELSE IF response.finish_reason = "tool_calls"
    THEN IF Len(response.tool_calls) < 1 THEN exiting
         ELSE LET toolCall == response.tool_calls[1]
                  action == ActionMessage(toolCall.id, toolCall.name, toolCall.arguments)
              IN IF toolCall.type # "function" THEN exiting
                 ELSE [h EXCEPT
                         !.pendingActionId = toolCall.id,
                         !.state = IF forceActionMessage # NoForce
                                   THEN [id |-> PENDING_FORCED_ACTION, action |-> action,
                                         forcedAction |-> forceActionMessage]
                                   ELSE [id |-> PENDING_ACTION, action |-> action],
                         !.openaiMessages =
                             Append(@, [role |-> "assistant",
                                        content |-> response.content,
                                        tool_calls |-> response.tool_calls]),
                         !.sent = Append(@, action)]
    ELSE exiting

\* Mutant of onResponse: an action is sent for every tool call of the choice.
onResponse_sendAll(h, forceActionMessage, response) ==
    LET exiting == [h EXCEPT !.state = [id |-> EXITING,
                                        reason |-> "Error calling OpenAI API"]]
    IN
    IF response.error THEN exiting
    ELSE IF response.choices # 1 THEN exiting
    ELSE IF response.finish_reason = "stop"
    THEN IF response.content = "" THEN exiting
         ELSE [h EXCEPT !.state = [id |-> IDLE]]
    ELSE IF response.finish_reason = "tool_calls"
    THEN IF Len(response.tool_calls) < 1 THEN exiting
         ELSE LET toolCall == response.tool_calls[1]
                  action == ActionMessage(toolCall.id, toolCall.name, toolCall.arguments)
              IN IF toolCall.type # "function" THEN exiting
                 ELSE [h EXCEPT
                         !.pendingActionId = toolCall.id,
                         !.state = IF forceActionMessage # NoForce
                                   THEN [id |-> PENDING_FORCED_ACTION, action |-> action,
                                         forcedAction |-> forceActionMessage]
                                   ELSE [id |-> PENDING_ACTION, action |-> action],
                         !.openaiMessages =
                             Append(@, [role |-> "assistant",
                                        content |-> response.content,
                                        tool_calls |-> <<toolCall>>]),
                         !.sent = @ \o [i \in 1..Len(response.tool_calls) |->
                                          ActionMessage(response.tool_calls[i].id,
                                                        response.tool_calls[i].name,
                                                        response.tool_calls[i].arguments)]]
    ELSE exiting

\* The .then / .catch handlers of callOpenAI, run when the request settles.
\* Every assertion comes before the first assignment of its branch, so a
\* failed one leaves only what the .catch handler does.
onResponse(h, forceActionMessage, response) ==
    LET exiting == [h EXCEPT !.state = [id |-> EXITING,
                                        reason |-> "Error calling OpenAI API"]]
    IN
    IF response.error THEN exiting
    ELSE IF response.choices # 1 THEN exiting
    ELSE IF response.finish_reason = "stop"
    THEN IF response.content = "" THEN exiting
         ELSE [h EXCEPT !.state = [id |-> IDLE]]
    ELSE IF response.finish_reason = "tool_calls"
    THEN IF Len(response.tool_calls) < 1 THEN exiting
         ELSE LET toolCall == response.tool_calls[1]
                  action == ActionMessage(toolCall.id, toolCall.name, toolCall.arguments)
              IN IF toolCall.type # "function" THEN exiting
                 ELSE [h EXCEPT
                         !.pendingActionId = toolCall.id,
                         !.state = IF forceActionMessage # NoForce
                                   THEN [id |-> PENDING_FORCED_ACTION, action |-> action,
                                         forcedAction |-> forceActionMessage]
                                   ELSE [id |-> PENDING_ACTION, action |-> action],
                         !.openaiMessages =
                             Append(@, [role |-> "assistant",
                                        content |-> response.content,
                                        tool_calls |-> <<toolCall>>]),
                         !.sent = Append(@, action)]
    ELSE exiting

\* -------------------------------------------------------------- the run loop
\* main() from the test of its while loop up to its next await (or its end):
\* pc is where it stops.
RECURSIVE main(_)
main(h) ==
    IF h.state.id = EXITING THEN [h |-> h, pc |-> "done"]
    ELSE IF h.state.id \in {THINKING, WAITING, PENDING_ACTION, PENDING_FORCED_ACTION}
    THEN [h |-> h, pc |-> "sleep"]
    ELSE IF isNotEmpty(h.messageQueue)
    THEN LET h1 == processMessageQueue(h)
         IN IF h1.threw THEN [h |-> h1, pc |-> "crashed"] ELSE main(h1)
    ELSE [h |-> h, pc |-> "idle_sleep"]

\* ------------------------------------------------------------ environment
Batches == {<<Action("a", "valid")>>,
            <<Action("a", "absent"), Action("b", "invalid"), Action("c", "empty")>>}

Undecodable ==
    {[json |-> FALSE, command |-> "", shape |-> FALSE, body |-> [raw |-> "{"]],
     [json |-> TRUE, command |-> "", shape |-> FALSE, body |-> [game |-> "g1"]],
     [json |-> TRUE, command |-> "bogus", shape |-> FALSE, body |-> [command |-> "bogus"]],
     [json |-> TRUE, command |-> "context", shape |-> FALSE,
      body |-> [command |-> "context", game |-> "g1"]]}

\* The action/result texts when the next fresh tool-call id is n: each names
\* an id the service has issued, or n, which no action carries yet.  The
\* result for id 2 reports a failure with a message, the others a success.
ResultTexts(n) ==
    {Text(ActionResultMessage(id, id # 2, IF id # 2 THEN "absent" ELSE "failed")) :
        id \in 1..n}

\* The texts of Spec: the commands that drive the lifecycle.
CoreTexts(n) ==
    {Text(StartupMessage("g1")), Text(ContextMessage(FALSE)),
     Text(RegisterActionsMessage(<<Action("a", "valid")>>))}
    \cup ResultTexts(n)

\* The texts of SpecWide: every command, and every way of not decoding.
WideTexts(n) ==
    {Text(StartupMessage("g1")), Text(StartupMessage("g2"))}
    \cup {Text(ContextMessage(silent)) : silent \in BOOLEAN}
    \cup {Text(RegisterActionsMessage(batch)) : batch \in Batches}
    \cup {Text(UnregisterActionsMessage(<<"a", "z">>))}
    \cup {Text(ForceActionMessage(st, eph, <<"a">>)) :
            st \in {"absent", "s"}, eph \in BOOLEAN}
    \cup ResultTexts(n)
    \cup {Text(ActionMessage(1, "a", "{}"))}
    \cup Undecodable

\* The texts of SpecReg: startup and the registration traffic.  The batches
\* repeat a name, put a valid entry after an invalid one of the same name,
\* and put valid entries after an invalid one; the lists name registered
\* and unregistered actions, in either order.
RegBatches ==
    {<<Action("a", "valid"), Action("a", "empty")>>,
     <<Action("a", "invalid"), Action("a", "absent")>>,
     <<Action("b", "invalid"), Action("a", "absent"), Action("c", "empty")>>}

UnregisterLists == {<<"a", "z">>, <<"c", "a">>, <<"z">>}

RegTexts ==
    {Text(StartupMessage("g1"))}
    \cup {Text(RegisterActionsMessage(batch)) : batch \in RegBatches}
    \cup {Text(UnregisterActionsMessage(names)) : names \in UnregisterLists}

\* The texts of SpecForce: a registration of two actions, forces that name
\* one of them, and the results of the actions chosen.
ForceTexts(n) ==
    {Text(RegisterActionsMessage(<<Action("a", "absent"), Action("c", "empty")>>)),
     Text(ForceActionMessage("absent", FALSE, <<"c">>)),
     Text(ForceActionMessage("s", TRUE, <<"a">>))}
    \cup ResultTexts(n)

\* The texts of SpecForced: forces that differ in ephemeral_context and in
\* having a state, and for every id a result that succeeds and one that fails.
ForcedTexts(n) ==
    {Text(ForceActionMessage(st, eph, <<"a">>)) : st \in {"absent", "s"}, eph \in BOOLEAN}
    \cup {Text(ActionResultMessage(id, success, IF success THEN "absent" ELSE "failed")) :
            id \in 1..n, success \in BOOLEAN}

\* The texts of SpecDecode: a startup, every way of not decoding, and texts
\* whose command is a name every object inherits.
InheritedTexts ==
    {[json |-> TRUE, command |-> c, shape |-> FALSE, body |-> [command |-> c]] :
        c \in InheritedAccepting \cup InheritedThrowing}

DecodeTexts == {Text(StartupMessage("g1"))} \cup Undecodable \cup InheritedTexts

\* The responses the service can give when the next fresh tool-call id is n.
Responses(n) ==
    {Response("stop", "hi", <<>>), Response("stop", "", <<>>),
     Response("length", "cut", <<>>), Response("tool_calls", "", <<>>),
     [error |-> TRUE, choices |-> 0, finish_reason |-> "", content |-> "",
      tool_calls |-> <<>>],
     [error |-> FALSE, choices |-> 2, finish_reason |-> "stop", content |-> "hi",
      tool_calls |-> <<>>],
     Response("tool_calls", "", <<ToolCall(n, "function")>>),
     Response("tool_calls", "", <<ToolCall(n, "custom")>>),
     Response("tool_calls", "", <<ToolCall(n, "function"), ToolCall(n + 1, "function")>>)}

\* The responses that are not failures: a stop with text, a tool selection.
OkResponses(n) ==
    {Response("stop", "hi", <<>>),
     Response("tool_calls", "", <<ToolCall(n, "function")>>)}

\* ------------------------------------------------------------------ actions
Init ==
    /\ state = [id |-> WAITING]
    /\ game = "undefined"
    /\ actions = <<>>
    /\ openaiMessages = <<SYSTEM_MESSAGE>>
    /\ pendingActionId = NULL
    /\ messageQueue = <<>>
    /\ inflight = <<>>
    /\ calls = 0
    /\ sent = <<>>
    /\ mainPc = "sleep"
    /\ awaiting = 0
    /\ alive = TRUE
    /\ nextId = 1
    /\ received = 0
    /\ idleCalls = 0
    /\ enqueued = <<>>
    /\ dequeued = <<>>
    /\ ledger = {}
    /\ last = [op |-> "init", drained |-> <<>>]

\* The fields of the handler object after a task.
Store(h) ==
    /\ state' = h.state
    /\ game' = h.game
    /\ actions' = h.actions
    /\ openaiMessages' = h.openaiMessages
    /\ pendingActionId' = h.pendingActionId
    /\ messageQueue' = h.messageQueue
    /\ inflight' = h.inflight
    /\ calls' = h.calls
    /\ sent' = h.sent
    /\ enqueued' = h.enqueued
    /\ dequeued' = h.dequeued
    /\ ledger' = h.ledger

\* An exception that leaves main(), or a rejected promise nobody awaits, is
\* an unhandled rejection: the runtime either ends the process or only warns.
Unhandled(failed) == alive' \in (IF failed THEN BOOLEAN ELSE {TRUE})

\* ws.on("message"): one text is delivered; the try/catch around
\* receiveMessage swallows what handleMessage throws.
ReceiveText(dataStr, limit) ==
    /\ alive
    /\ received < limit
    /\ LET h == receiveMessage(Handler, dataStr) IN
         /\ Store(h)
         /\ Unhandled(h.rejected)
         /\ last' = [op |-> "receive", text |-> dataStr, pre |-> state,
                     preActions |-> actions, threw |-> h.threw, drained |-> <<>>]
    /\ received' = received + 1
    /\ UNCHANGED <<mainPc, awaiting, nextId, idleCalls>>

\* main() wakes from a sleep(idleTime) of a non-idle branch and runs on.  A
\* wake-up that finds nothing to do and sleeps again leaves no trace in last.
MainWake ==
    /\ alive
    /\ mainPc = "sleep"
    /\ LET r == main(Handler) IN
         /\ Store(r.h)
         /\ mainPc' = r.pc
         /\ Unhandled(r.pc = "crashed")
         /\ last' = IF r.h = Handler /\ r.pc = mainPc THEN last
                    ELSE [op |-> "wake", pre |-> state, threw |-> r.h.threw,
                          drained |-> r.h.drained]
    /\ UNCHANGED <<awaiting, nextId, received, idleCalls>>

\* main() wakes from the sleep of the idle branch and awaits callOpenAI().
MainIdleCall ==
    /\ alive
    /\ mainPc = "idle_sleep"
    /\ idleCalls < MaxIdleCalls
    /\ LET h == callOpenAI(Handler, NoForce) IN
         /\ Store(h)
         /\ mainPc' = IF h.rejected THEN "crashed" ELSE "await"
         /\ awaiting' = IF h.rejected THEN 0 ELSE h.calls
         /\ Unhandled(h.rejected)
         /\ last' = [op |-> "idlecall", pre |-> state, threw |-> h.rejected,
                     drained |-> <<>>]
    /\ idleCalls' = idleCalls + 1
    /\ UNCHANGED <<nextId, received>>

Remove(seq, i) == SubSeq(seq, 1, i - 1) \o SubSeq(seq, i + 1, Len(seq))

\* One outstanding request settles: its handlers run and, when main() awaits
\* it, main() runs on in the same turn of the event loop.
Settle(i, response) ==
    /\ alive
    /\ i \in 1..Len(inflight)
    /\ LET request == inflight[i]
           h == onResponse([Handler EXCEPT !.inflight = Remove(@, i)],
                           request.forceActionMessage, response)
           r == IF awaiting = request.call THEN main(h) ELSE [h |-> h, pc |-> mainPc]
       IN
         /\ Store(r.h)
         /\ mainPc' = r.pc
         /\ awaiting' = IF awaiting = request.call THEN 0 ELSE awaiting
         /\ Unhandled(awaiting = request.call /\ r.pc = "crashed")
         /\ last' = [op |-> "complete", response |-> response, pre |-> state,
                     threw |-> r.h.threw, drained |-> r.h.drained]
    /\ nextId' = nextId + Len(response.tool_calls)
    /\ UNCHANGED <<received, idleCalls>>

Receive == \E dataStr \in CoreTexts(nextId) : ReceiveText(dataStr, MaxMsgs)

ReceiveWide == \E dataStr \in WideTexts(nextId) : ReceiveText(dataStr, MaxWideMsgs)

Complete ==
    \E i \in 1..Len(inflight) : \E response \in Responses(nextId) : Settle(i, response)

Next ==
    \/ Receive
    \/ MainWake
    \/ MainIdleCall
    \/ Complete

Spec == Init /\ [][Next]_vars

NextWide ==
    \/ ReceiveWide
    \/ MainWake
    \/ MainIdleCall
    \/ Complete

SpecWide == Init /\ [][NextWide]_vars

\* SpecReg starts where the game has started and the first invocation has
\* ended in Idle: the state of Spec after the startup of g1 and a stop.
InitReg ==
    /\ state = [id |-> IDLE]
    /\ game = "g1"
    /\ actions = <<>>
    /\ openaiMessages = <<SYSTEM_MESSAGE,
                          [role |-> "user", content |-> <<"You are now playing", "g1">>]>>
    /\ pendingActionId = NULL
    /\ messageQueue = <<>>
    /\ inflight = <<>>
    /\ calls = 1
    /\ sent = <<>>
    /\ mainPc = "sleep"
    /\ awaiting = 0
    /\ alive = TRUE
    /\ nextId = 1
    /\ received = 1
    /\ idleCalls = 0
    /\ enqueued = <<>>
    /\ dequeued = <<>>
    /\ ledger = {}
    /\ last = [op |-> "complete", response |-> Response("stop", "hi", <<>>),
               pre |-> [id |-> THINKING], threw |-> FALSE, drained |-> <<>>]

ReceiveReg == \E dataStr \in RegTexts : ReceiveText(dataStr, MaxRegMsgs)

NextReg ==
    \/ ReceiveReg
    \/ MainWake
    \/ MainIdleCall
    \/ Complete

SpecReg == InitReg /\ [][NextReg]_vars

\* SpecForce starts in the same state and delivers the texts of ForceTexts.
ReceiveForce == \E dataStr \in ForceTexts(nextId) : ReceiveText(dataStr, MaxRegMsgs)

NextForce ==
    \/ ReceiveForce
    \/ MainWake
    \/ MainIdleCall
    \/ Complete

SpecForce == InitReg /\ [][NextForce]_vars

\* SpecForced starts where a forced action is pending: the state of the
\* program after startup of g1, a stop, the registration of a and c (Idle),
\* an actions/force naming a (request 2), and the selection of tool call 1.
InitForced ==
    /\ state = [id |-> PENDING_ACTION, action |-> ActionMessage(1, "a", "{}")]
    /\ game = "g1"
    /\ actions = <<Action("a", "absent"), Action("c", "empty")>>
    /\ openaiMessages =
          <<SYSTEM_MESSAGE,
            [role |-> "user", content |-> <<"You are now playing", "g1">>],
            convertForcedActionMessageToOpenAIMessage(
                ForceActionMessage("s", FALSE, <<"a">>), "before-result"),
            [role |-> "assistant", content |-> "",
             tool_calls |-> <<ToolCall(1, "function")>>]>>
    /\ pendingActionId = 1
    /\ messageQueue = <<>>
    /\ inflight = <<>>
    /\ calls = 2
    /\ sent = <<ActionMessage(1, "a", "{}")>>
    /\ mainPc = "sleep"
    /\ awaiting = 0
    /\ alive = TRUE
    /\ nextId = 2
    /\ received = 3
    /\ idleCalls = 0
    /\ enqueued = <<>>
    /\ dequeued = <<>>
    /\ ledger = {Action("a", "absent"), Action("c", "empty")}
    /\ last = [op |-> "complete",
               response |-> Response("tool_calls", "", <<ToolCall(1, "function")>>),
               pre |-> [id |-> THINKING], threw |-> FALSE, drained |-> <<>>]

ReceiveForced == \E dataStr \in ForcedTexts(nextId) : ReceiveText(dataStr, MaxForcedMsgs)

NextForced ==
    \/ ReceiveForced
    \/ MainWake
    \/ MainIdleCall
    \/ Complete

SpecForced == InitForced /\ [][NextForced]_vars

\* SpecDecode delivers the texts of DecodeTexts.
ReceiveDecode == \E dataStr \in DecodeTexts : ReceiveText(dataStr, MaxWideMsgs)

NextDecode ==
    \/ ReceiveDecode
    \/ MainWake
    \/ MainIdleCall
    \/ Complete

SpecDecode == Init /\ [][NextDecode]_vars

\* SpecLive: the runs of Spec in which no invocation fails, with the
\* scheduling the claims on progress assume: a timer that is set fires, so
\* main() wakes from every sleep, and every request settles.
CompleteOk ==
    \E i \in 1..Len(inflight) : \E response \in OkResponses(nextId) : Settle(i, response)

NextLive ==
    \/ Receive
    \/ MainWake
    \/ MainIdleCall
    \/ CompleteOk

SpecLive ==
    /\ Init
    /\ [][NextLive]_vars
    /\ WF_vars(MainWake)
    /\ WF_vars(MainIdleCall)
    /\ WF_vars(CompleteOk)

\* =================================================================== claims
\* The message a delivered text decodes to, and the steps that deliver one.
Decoded(dataStr) == deserializeMessage(dataStr)

PendingIds == {PENDING_ACTION, PENDING_FORCED_ACTION}

\* The step delivers a text that decodes to a message of the given commands.
Delivers(commands) ==
    /\ last'.op = "receive"
    /\ Decoded(last'.text).ok
    /\ Decoded(last'.text).value.command \in commands

\* The last task delivered a message of the given commands in a state of ids.
Delivered(commands, ids) ==
    /\ last.op = "receive"
    /\ Decoded(last.text).ok
    /\ Decoded(last.text).value.command \in commands
    /\ last.pre.id \in ids

\* An action/result with this id has been accepted: its tool turn is logged.
Accepted(id) ==
    \E i \in 1..Len(openaiMessages) :
        /\ openaiMessages[i].role = "tool"
        /\ openaiMessages[i].tool_call_id = id

\* C1: at most one completion request is outstanding in every reachable
\* state: no request is sent while an earlier one has not settled.
C1_AtMostOneInvocation == Len(inflight) <= 1

\* C2: at most one game action is in flight: every action broadcast before
\* the latest one has had an action/result with its id accepted.
C2_AtMostOneActionInFlight ==
    \A i \in 1..(Len(sent) - 1) : Accepted(sent[i].data.id)

\* C3: a pending state with action id X is left only by the task that
\* handles an action/result with id X.
C3_PendingUntilResult ==
    [][(state.id \in PendingIds /\ state' # state)
       => (/\ Delivers({"action/result"})
           /\ Decoded(last'.text).value.data.id = state.action.data.id)]_vars

\* C4: an action/result with another id than the pending action's, handled
\* while an action is pending, changes nothing and starts no invocation.
C4_MismatchedResultDropped ==
    [][(/\ state.id \in PendingIds
        /\ Delivers({"action/result"})
        /\ Decoded(last'.text).value.data.id # state.action.data.id)
       => UNCHANGED <<state, pendingActionId, openaiMessages, actions, messageQueue,
                      inflight, calls, game, sent>>]_vars

C4_Witness ==
    /\ Delivered({"action/result"}, PendingIds)
    /\ Decoded(last.text).value.data.id # last.pre.action.data.id

\* C5: an action/result with the pending action's id, handled while that
\* action is pending, appends one tool turn with that id, clears the pending
\* action and starts an invocation: the state is Thinking.
C5_MatchingResultAccepted ==
    [][(/\ state.id \in PendingIds
        /\ Delivers({"action/result"})
        /\ Decoded(last'.text).value.data.id = state.action.data.id)
       => (/\ Len(openaiMessages') = Len(openaiMessages) + 1
           /\ SubSeq(openaiMessages', 1, Len(openaiMessages)) = openaiMessages
           /\ openaiMessages'[Len(openaiMessages')].role = "tool"
           /\ openaiMessages'[Len(openaiMessages')].tool_call_id = state.action.data.id
           /\ pendingActionId' = NULL
           /\ state' = [id |-> THINKING]
           /\ calls' = calls + 1
           /\ Len(inflight') = Len(inflight) + 1
           /\ inflight'[Len(inflight')].messages = openaiMessages')]_vars

C5_Witness ==
    /\ Delivered({"action/result"}, PendingIds)
    /\ Decoded(last.text).value.data.id = last.pre.action.data.id
    /\ state.id = THINKING

\* C6: the queue is FIFO: the messages polled so far, followed by the ones
\* still queued, are the messages offered so far, in the order of offering.
C6_QueueFifo == enqueued = dequeued \o messageQueue

C6_Witness ==
    /\ Len(dequeued) >= 2
    /\ dequeued[1] # dequeued[2]
    /\ last.op \in {"wake", "complete"}
    /\ Len(last.drained) >= 2

\* C7: draining stops at the first message that leaves the machine Thinking
\* or Pending: every message taken from the queue is handled in state Idle.
C7_DrainStopsWhenBusy ==
    \A i \in 1..Len(last.drained) : last.drained[i].pre = IDLE

\* C8 (as claimed): a message other than action/result, actions/register and
\* actions/unregister that arrives while an action is pending is appended to
\* the queue.
C8_QueuedWhilePending ==
    [][(/\ state.id \in PendingIds
        /\ Delivers(Commands \ {"action/result", "actions/register",
                                "actions/unregister"}))
       => messageQueue' = Append(messageQueue, Decoded(last'.text).value)]_vars

\* C8 (amended): such a message is rejected: it is not queued, and state,
\* game, action set, log, pending action and queue are unchanged.
C8_RejectedWhilePending ==
    [][(/\ state.id \in PendingIds
        /\ Delivers(Commands \ {"action/result", "actions/register",
                                "actions/unregister"}))
       => UNCHANGED <<state, game, actions, openaiMessages, pendingActionId,
                      messageQueue, enqueued, inflight, calls, sent>>]_vars

C8_Witness ==
    Delivered({"startup", "context", "actions/force", "action"}, PendingIds)

\* C9: in AwaitingStartup a message other than startup is rejected and not
\* queued: state, game, action set, log and queue are unchanged.
C9_RejectedBeforeStartup ==
    [][(/\ state.id = WAITING
        /\ Delivers(Commands \ {"startup"}))
       => UNCHANGED <<state, game, actions, openaiMessages, pendingActionId,
                      messageQueue, enqueued, inflight, calls, sent>>]_vars

C9_Witness ==
    /\ Delivered({"actions/register", "context", "actions/force", "action/result"},
                 {WAITING})
    /\ state.id = WAITING

\* C10 (as claimed): the delivery of a startup message leaves the action set
\* empty, whatever the state it is delivered in.
C10_StartupAlwaysResets ==
    [][Delivers({"startup"}) => actions' = <<>>]_vars

\* C10 (amended): a startup delivered in AwaitingStartup or Idle empties the
\* action set; delivered in any other state it is queued (Thinking, Exiting)
\* or dropped (pending) and the action set is unchanged by its arrival.
C10_StartupResetsWhenHandled ==
    [][Delivers({"startup"})
       => IF state.id \in {WAITING, IDLE}
          THEN actions' = <<>> /\ game' = Decoded(last'.text).value.game
          ELSE /\ actions' = actions
               /\ messageQueue' = IF state.id \in PendingIds THEN messageQueue
                                  ELSE Append(messageQueue, Decoded(last'.text).value)]_vars

C10_Witness ==
    /\ Delivered({"startup"}, {IDLE})
    /\ Len(last.preActions) > 0
    /\ actions = <<>>

\* The step settles the request with this call number.
Settles(call) ==
    /\ \E i \in 1..Len(inflight) : inflight[i].call = call
    /\ ~\E i \in 1..Len(inflight') : inflight'[i].call = call

\* The response is a stop with text, the one that ends an invocation in Idle.
IsStop(response) ==
    /\ ~response.error
    /\ response.choices = 1
    /\ response.finish_reason = "stop"
    /\ response.content # ""

\* C11: a startup handled in AwaitingStartup records the game, empties the
\* action set, appends one user turn announcing the game and starts the
\* first invocation (Thinking); when that invocation completes with a stop
\* and text, the state becomes Idle.
C11_StartupThenIdle ==
    [][/\ (state.id = WAITING /\ Delivers({"startup"}))
          => (/\ game' = Decoded(last'.text).value.game
              /\ actions' = <<>>
              /\ openaiMessages' =
                     Append(openaiMessages,
                            [role |-> "user",
                             content |-> <<"You are now playing",
                                           Decoded(last'.text).value.game>>])
              /\ state' = [id |-> THINKING]
              /\ calls' = 1
              /\ Len(inflight') = 1
              /\ inflight'[1].call = 1
              /\ inflight'[1].messages = openaiMessages')
       /\ (Settles(1) /\ last'.op = "complete" /\ IsStop(last'.response))
          => state' = [id |-> IDLE]]_vars

C11_Witness ==
    /\ last.op = "complete"
    /\ IsStop(last.response)
    /\ last.pre.id = THINKING
    /\ calls = 1
    /\ game = "g2"
    /\ Len(openaiMessages) = 2
    /\ state.id = IDLE

\* The names of the actions of a list.
Names(list) == {list[i].name : i \in 1..Len(list)}

\* C12: in every reachable state no two actions of the live action set have
\* the same name, whatever startup, register and unregister messages came,
\* batches that repeat a name included.
C12_UniqueNames ==
    \A i, j \in 1..Len(actions) : actions[i].name = actions[j].name => i = j

C12_Witness ==
    /\ Delivered({"actions/register"}, {IDLE} \cup PendingIds)
    /\ LET batch == Decoded(last.text).value.data.actions IN
         /\ \E i, j \in 1..Len(batch) :
               /\ i < j
               /\ batch[i].name = batch[j].name
               /\ validateActionSchema(batch[i])
               /\ validateActionSchema(batch[j])
         /\ Names(batch) \cap Names(actions) # {}
         /\ Names(batch) \cap Names(last.preActions) = {}

\* C13: after any sequence of register and unregister messages (and
\* startups), an action is in the live action set exactly when it was
\* validly registered (its name not present then, its schema passing) and
\* has not been unregistered, or cleared by a startup, since.
C13_LiveIffRegistered == {actions[i] : i \in 1..Len(actions)} = ledger

C13_Witness ==
    /\ Delivered({"actions/unregister"}, {IDLE} \cup PendingIds)
    /\ Len(actions) > 0
    /\ Len(actions) < Len(last.preActions)
    /\ \E i \in 1..Len(actions) : actions[i].schema = "empty"

\* The entries of a batch that a registration adds to the listed actions,
\* in batch order: the k-th is the entry at the k-th smallest index whose
\* schema passes, whose name is not listed and is not the name of an
\* earlier entry of the batch with a passing schema.
Added(list, batch) ==
    LET keep == {i \in 1..Len(batch) :
                    /\ validateActionSchema(batch[i])
                    /\ batch[i].name \notin Names(list)
                    /\ \A j \in 1..(i - 1) :
                          batch[j].name = batch[i].name => ~validateActionSchema(batch[j])}
    IN [k \in 1..Cardinality(keep) |->
           batch[CHOOSE i \in keep : Cardinality({j \in keep : j <= i}) = k]]

\* C14: registration is per item: of a batch handled in Idle or while an
\* action is pending, an entry whose name is registered (by an earlier entry
\* of the batch too) or whose schema is invalid is skipped, and every other
\* entry is appended to the action set, in batch order.
C14_PerItemRegistration ==
    [][(/\ state.id \in {IDLE} \cup PendingIds
        /\ Delivers({"actions/register"}))
       => actions' = actions \o Added(actions, Decoded(last'.text).value.data.actions)]_vars

C14_Witness ==
    /\ Delivered({"actions/register"}, {IDLE} \cup PendingIds)
    /\ LET batch == Decoded(last.text).value.data.actions IN
         /\ \E i \in 1..Len(batch) : ~validateActionSchema(batch[i])
         /\ \E i \in 1..Len(batch) : batch[i].name \in Names(last.preActions)
         /\ Len(batch) = 3
         /\ actions = last.preActions \o <<batch[3]>>

\* Where an action stands in a list (0: nowhere).
Position(list, action) ==
    IF \E i \in 1..Len(list) : list[i] = action
    THEN CHOOSE i \in 1..Len(list) : list[i] = action
    ELSE 0

\* C15: an unregister handled in Idle or while an action is pending removes
\* exactly the registered actions it names and keeps the others in their
\* order; when it names no registered action the set is unchanged; and
\* handling the same unregister again would change nothing more.
C15_UnregisterExact ==
    [][(/\ state.id \in {IDLE} \cup PendingIds
        /\ Delivers({"actions/unregister"}))
       => LET names == Decoded(last'.text).value.data.action_names
              named == {names[i] : i \in 1..Len(names)}
          IN /\ {actions'[i] : i \in 1..Len(actions')} =
                   {actions[i] : i \in {k \in 1..Len(actions) : actions[k].name \notin named}}
             /\ \A i, j \in 1..Len(actions') :
                   i < j => Position(actions, actions'[i]) < Position(actions, actions'[j])
             /\ (named \cap Names(actions) = {} => actions' = actions)
             /\ unregisterActions([actions |-> actions'], names).actions = actions']_vars

C15_Witness ==
    /\ Delivered({"actions/unregister"}, {IDLE} \cup PendingIds)
    /\ Decoded(last.text).value.data.action_names = <<"a", "z">>
    /\ Len(last.preActions) = 2
    /\ Len(actions) = 1
    /\ actions[1].name = "c"

\* An unregister that names no registered action was handled.
C15_WitnessNoop ==
    /\ Delivered({"actions/unregister"}, {IDLE} \cup PendingIds)
    /\ Decoded(last.text).value.data.action_names = <<"z">>
    /\ Len(actions) > 0

\* The step applies the register or unregister message to the action set.
Applies(message) ==
    IF message.command = "actions/register"
    THEN actions' = actions \o Added(actions, message.data.actions)
    ELSE actions' = SelectSeq(actions,
                              LAMBDA a : \A i \in 1..Len(message.data.action_names) :
                                             message.data.action_names[i] # a.name)

\* C16 (as claimed): in whichever state an actions/register or
\* actions/unregister arrives, it is not rejected: it is applied to the
\* action set, at once or after being queued.
C16_PermittedInEveryState ==
    [][Delivers({"actions/register", "actions/unregister"})
       => \/ Applies(Decoded(last'.text).value)
          \/ messageQueue' = Append(messageQueue, Decoded(last'.text).value)]_vars

\* C16 (amended): such a message is applied to the action set on arrival in
\* Idle and while an action is pending; in AwaitingStartup it is rejected
\* (action set and queue unchanged); in Thinking and Exiting it is queued
\* and the action set is unchanged by its arrival.
C16_PermittedWhenHandled ==
    [][Delivers({"actions/register", "actions/unregister"})
       => IF state.id \in {IDLE} \cup PendingIds
          THEN Applies(Decoded(last'.text).value) /\ messageQueue' = messageQueue
          ELSE /\ actions' = actions
               /\ messageQueue' = IF state.id = WAITING THEN messageQueue
                                  ELSE Append(messageQueue, Decoded(last'.text).value)]_vars

C16_Witness ==
    /\ Delivered({"actions/register"}, PendingIds)
    /\ Len(actions) > Len(last.preActions)
    /\ state.id \in PendingIds

\* C17: handling an actions/register or actions/unregister changes only the
\* action set: handled on arrival (Idle, pending), state, pending action,
\* log and queue are unchanged and no request is sent; and a wake-up of
\* main() that takes only such messages from the queue leaves state,
\* pending action and log unchanged and sends no request.
C17_RegistrationFrame ==
    [][/\ (/\ state.id \in {IDLE} \cup PendingIds
           /\ Delivers({"actions/register", "actions/unregister"}))
          => UNCHANGED <<state, pendingActionId, openaiMessages, messageQueue,
                         enqueued, inflight, calls, sent, game>>
       /\ (/\ last'.op = "wake"
           /\ last'.drained # <<>>
           /\ \A i \in 1..Len(last'.drained) :
                 last'.drained[i].message.command
                     \in {"actions/register", "actions/unregister"})
          => UNCHANGED <<state, pendingActionId, openaiMessages, inflight, calls,
                         sent, game>>]_vars

C17_Witness ==
    /\ Delivered({"actions/register", "actions/unregister"}, {IDLE})
    /\ actions # last.preActions
    /\ state.id = IDLE

\* A wake-up of main() handled a queued registration and nothing else.
C17_WitnessDrained ==
    /\ last.op = "wake"
    /\ Len(last.drained) = 1
    /\ last.drained[1].message.command = "actions/register"
    /\ Len(actions) > 0

\* C18: a context message handled in Idle appends exactly one user turn to
\* the log; when silent, no request is sent and the state stays Idle; when
\* not silent, one request is sent and the state becomes Thinking.
C18_ContextInIdle ==
    [][(state.id = IDLE /\ Delivers({"context"}))
       => LET data == Decoded(last'.text).value.data IN
          /\ openaiMessages' =
                 Append(openaiMessages, [role |-> "user", content |-> <<data.message>>])
          /\ IF data.silent
             THEN state' = state /\ calls' = calls /\ inflight' = inflight
             ELSE /\ state' = [id |-> THINKING]
                  /\ calls' = calls + 1
                  /\ Len(inflight') = Len(inflight) + 1]_vars

\* C19: a context message that arrives while an action is pending is
\* dropped: state, pending action and log are unchanged, no request is
\* sent, and the message is not kept in the queue for later.
C19_ContextWhilePendingDropped ==
    [][(state.id \in PendingIds /\ Delivers({"context"}))
       => /\ UNCHANGED <<state, pendingActionId, openaiMessages>>
          /\ UNCHANGED <<inflight, calls, sent>>
          /\ UNCHANGED <<messageQueue, enqueued>>
          /\ ~last'.threw]_vars

C19_Witness ==
    /\ Delivered({"context"}, PendingIds)
    /\ state.id \in PendingIds
    /\ pendingActionId = state.action.data.id
    /\ messageQueue = <<>>

\* The response selects a tool: finish_reason tool_calls with a first tool
\* call of type function.
IsToolSelection(response) ==
    /\ ~response.error
    /\ response.choices = 1
    /\ response.finish_reason = "tool_calls"
    /\ Len(response.tool_calls) >= 1
    /\ response.tool_calls[1].type = "function"

\* C20: when a request completes with a tool selection whose tool-call id
\* is X, the state becomes a pending state holding X, exactly one action
\* message, with data.id = X, is broadcast, and exactly one assistant turn,
\* carrying that tool call, is appended to the log.
C20_ToolSelectionPends ==
    [][(/\ \E call \in 1..calls : Settles(call)
        /\ last'.op = "complete"
        /\ IsToolSelection(last'.response))
       => LET toolCall == last'.response.tool_calls[1] IN
          /\ state'.id \in PendingIds
          /\ state'.action.data.id = toolCall.id
          /\ pendingActionId' = toolCall.id
          /\ sent' = Append(sent, ActionMessage(toolCall.id, toolCall.name,
                                                toolCall.arguments))
          /\ openaiMessages' =
                 Append(openaiMessages, [role |-> "assistant",
                                         content |-> last'.response.content,
                                         tool_calls |-> <<toolCall>>])]_vars

C20_Witness ==
    /\ last.op = "complete"
    /\ IsToolSelection(last.response)
    /\ Len(last.response.tool_calls) = 2
    /\ state.id = PENDING_ACTION
    /\ state.action.data.id = last.response.tool_calls[1].id
    /\ Len(sent) = 1

\* C21: when a completion returns several tool calls only the first is
\* honoured: the assistant turn appended to the log carries that tool call
\* and no other, the action sent carries its id, and that id is the pending
\* action id; the ids of the discarded tool calls are neither logged nor sent.
C21_OnlyFirstToolCall ==
    [][(/\ \E call \in 1..calls : Settles(call)
        /\ last'.op = "complete"
        /\ IsToolSelection(last'.response)
        /\ Len(last'.response.tool_calls) > 1)
       => LET first == last'.response.tool_calls[1]
              turn == openaiMessages'[Len(openaiMessages')]
              action == sent'[Len(sent')]
          IN /\ Len(turn.tool_calls) = 1
             /\ turn.tool_calls[1] = first
             /\ action.data.id = turn.tool_calls[1].id
             /\ pendingActionId' = action.data.id
             /\ state'.action = action
             /\ \A k \in 2..Len(last'.response.tool_calls) :
                   /\ \A i \in 1..Len(sent') :
                         sent'[i].data.id # last'.response.tool_calls[k].id
                   /\ \A i \in 1..Len(openaiMessages') :
                         openaiMessages'[i].role = "assistant"
                         => \A n \in 1..Len(openaiMessages'[i].tool_calls) :
                               openaiMessages'[i].tool_calls[n].id
                                   # last'.response.tool_calls[k].id]_vars

C21_Witness ==
    /\ last.op = "complete"
    /\ IsToolSelection(last.response)
    /\ Len(last.response.tool_calls) = 2
    /\ openaiMessages[Len(openaiMessages)].role = "assistant"
    /\ openaiMessages[Len(openaiMessages)].tool_calls = <<last.response.tool_calls[1]>>
    /\ sent[Len(sent)].data.id = pendingActionId

\* C22: when the request that the handling of an actions/force message sent
\* completes with a tool selection, the state becomes PendingForcedAction
\* and holds that force message.
C22_ForcedPendingRetained ==
    [][\A i \in 1..Len(inflight) :
          (/\ inflight[i].forced # NoForce
           /\ Settles(inflight[i].call)
           /\ last'.op = "complete"
           /\ IsToolSelection(last'.response))
          => (/\ state'.id = PENDING_FORCED_ACTION
              /\ state'.forcedAction = inflight[i].forced)]_vars

\* C23: a request sent by the handling of an actions/force message offers
\* only tools whose name is in the message's action_names.
C23_ForcedToolsRestricted ==
    \A i \in 1..Len(inflight) :
        inflight[i].forced # NoForce
        => \A k \in 1..Len(inflight[i].tools) :
              \E n \in 1..Len(inflight[i].forced.data.action_names) :
                  inflight[i].forced.data.action_names[n] = inflight[i].tools[k].name

\* The response is an invocation failure: a service error, not exactly one
\* choice, a stop without content, a tool selection without a tool call, or
\* any other finish reason.
IsFailure(response) ==
    \/ response.error
    \/ response.choices # 1
    \/ response.finish_reason \notin {"stop", "tool_calls"}
    \/ response.finish_reason = "stop" /\ response.content = ""
    \/ response.finish_reason = "tool_calls" /\ Len(response.tool_calls) = 0

\* C24: a request that completes with an invocation failure leaves the state
\* Exiting and is not retried: the task sends no request, and changes
\* neither the log, the pending action nor what was sent.
C24_FailureExits ==
    [][(/\ \E call \in 1..calls : Settles(call)
        /\ last'.op = "complete"
        /\ IsFailure(last'.response))
       => /\ state' = [id |-> EXITING, reason |-> "Error calling OpenAI API"]
          /\ calls' = calls
          /\ Len(inflight') = Len(inflight) - 1
          /\ UNCHANGED <<openaiMessages, pendingActionId, sent, actions, game>>]_vars

C24_Witness ==
    /\ last.op = "complete"
    /\ IsFailure(last.response)
    /\ last.response.finish_reason = "stop"
    /\ ~last.response.error
    /\ last.response.choices = 1
    /\ last.pre.id = THINKING
    /\ state.id = EXITING
    /\ mainPc = "done"

\* C25: Exiting is terminal: once the state is Exiting no task changes it,
\* sends a request or handles a message (action set, log, pending action
\* and what was sent stay as they are; nothing is taken from the queue).
C25_ExitingTerminal ==
    [][state.id = EXITING
       => /\ state' = state
          /\ calls' = calls
          /\ UNCHANGED <<game, actions, openaiMessages, pendingActionId, sent,
                         dequeued>>]_vars

\* C26: while the state is not Exiting the run loop keeps running: main()
\* has ended, normally or by an exception, only when the state is Exiting.
C26_LoopRunsUnlessExiting ==
    mainPc \in {"done", "crashed"} => state.id = EXITING

\* C27: the log is append-only: in every step the log before is a prefix
\* of the log after, and its first turn is the system turn; a startup
\* received in mid-session appends like any other message.
C27_LogAppendOnly ==
    [][/\ Len(openaiMessages') >= Len(openaiMessages)
       /\ SubSeq(openaiMessages', 1, Len(openaiMessages)) = openaiMessages
       /\ openaiMessages'[1] = SYSTEM_MESSAGE]_vars

C27_Witness ==
    /\ Delivered({"startup"}, {IDLE})
    /\ Len(openaiMessages) = 3
    /\ openaiMessages[2].role = "user"
    /\ openaiMessages[2].content = <<"You are now playing", "g1">>
    /\ openaiMessages[3].content = <<"You are now playing", "g2">>

\* C28: a message that arrives in state Thinking is not evaluated: it is
\* appended to the queue, and state, game, action set, log and pending
\* action are unchanged by its arrival; no request is sent.
C28_QueuedWhileThinking ==
    [][(state.id = THINKING /\ Delivers(Commands))
       => /\ messageQueue' = Append(messageQueue, Decoded(last'.text).value)
          /\ UNCHANGED <<state, game, actions, openaiMessages, pendingActionId>>
          /\ UNCHANGED <<inflight, calls, sent, ledger>>
          /\ ~last'.threw]_vars

C28_Witness ==
    /\ Delivered(Commands, {THINKING})
    /\ state.id = THINKING
    /\ Len(messageQueue) >= 1
    /\ messageQueue[Len(messageQueue)] = Decoded(last.text).value
    /\ Decoded(last.text).value.command = "actions/register"
    /\ actions = <<>>

\* C29: every queued message is eventually handled.  In particular, when
\* no request is outstanding, no action is pending and the state is Idle,
\* a message left in the queue is eventually taken from it, also after
\* main() has met an exception.
C29_QueuedEventuallyHandled ==
    (/\ messageQueue # <<>>
     /\ mainPc = "crashed"
     /\ state.id = IDLE
     /\ pendingActionId = NULL
     /\ inflight = <<>>)
    ~> (messageQueue = <<>>)

\* The step delivers a text of one of the four kinds that must not decode:
\* not JSON, no command, a command that is not one of the protocol's, or a
\* payload the command's schema rejects.
DeliversUndecodable ==
    /\ last'.op = "receive"
    /\ received' = received + 1
    /\ \/ ~last'.text.json
       \/ last'.text.command \notin Commands
       \/ ~last'.text.shape

\* C30: a text that fails decoding is dropped: state, game, action set, log
\* and queue (and pending action, requests, actions sent) are unchanged,
\* in every state.
C30_UndecodableDropped ==
    [][DeliversUndecodable
       => UNCHANGED <<state, game, actions, openaiMessages, messageQueue,
                      pendingActionId, inflight, calls, sent>>]_vars

\* The step is main()'s unprompted invocation: callOpenAI() of the idle branch.
StartsUnprompted ==
    /\ last'.op = "idlecall"
    /\ idleCalls' = idleCalls + 1

\* C31: the unprompted invocation of the run loop is started only when, at
\* the moment it starts, the state is Idle and the queue is empty.
C31_UnpromptedOnlyWhenIdle ==
    [][StartsUnprompted => (state.id = IDLE /\ messageQueue = <<>>)]_vars

\* The turn is the user turn of an actions/force message: it ends with the
\* directive and the candidate names.
IsForceTurn(turn) ==
    /\ turn.role = "user"
    /\ Len(turn.content) >= 2
    /\ turn.content[Len(turn.content) - 1] = "You must use one of the following tools"

\* Where the last force turn of a log stands (0: the log has none).
LastForce(log) ==
    IF \E i \in 1..Len(log) : IsForceTurn(log[i])
    THEN CHOOSE i \in 1..Len(log) :
             IsForceTurn(log[i]) /\ \A j \in (i + 1)..Len(log) : ~IsForceTurn(log[j])
    ELSE 0

\* An action result has been accepted since the last force: a tool turn
\* stands after the last force turn of the log.
ResultSinceLastForce(log) ==
    \E j \in (LastForce(log) + 1)..Len(log) : log[j].role = "tool"

\* C32: the user turn appended for an actions/force message handled in Idle
\* contains the query (and the state, when present) if ephemeral_context is
\* true or no action result has been received since the last force;
\* otherwise it contains only the directive with the candidate names.
C32_ForceTurnContent ==
    [][(state.id = IDLE /\ Delivers({"actions/force"}))
       => LET data == Decoded(last'.text).value.data
              directive == <<"You must use one of the following tools", data.action_names>>
              context == <<data.query>> \o
                         (IF data.state # "absent" THEN <<"Game state", data.state>>
                          ELSE <<>>)
          IN openaiMessages' =
                 Append(openaiMessages,
                        [role |-> "user",
                         content |-> IF \/ data.ephemeral_context
                                        \/ ~ResultSinceLastForce(openaiMessages)
                                     THEN context \o directive
                                     ELSE directive])]_vars

\* The message with the other value of ephemeral_context (any other message
\* as it is).
OtherEphemeral(message) ==
    IF message.command = "actions/force"
    THEN [message EXCEPT !.data.ephemeral_context = ~@]
    ELSE message

\* C33: ephemeral_context has no effect: the task that receives an
\* actions/force leaves the log and the state that it would have left had
\* the message carried the other value of ephemeral_context, and so does a
\* wake-up of main() that handles queued forces; no step removes or changes
\* a turn of the log, the force turns included.
C33_EphemeralNoEffect ==
    [][/\ Delivers({"actions/force"})
          => LET other == receiveMessage(Handler,
                                         Text(OtherEphemeral(Decoded(last'.text).value)))
             IN /\ openaiMessages' = other.openaiMessages
                /\ state' = other.state
                /\ Len(inflight') = Len(other.inflight)
       /\ (last'.op = "wake" /\ last'.drained # <<>>)
          => LET other == main([Handler EXCEPT !.messageQueue =
                                   [i \in 1..Len(@) |-> OtherEphemeral(@[i])]])
             IN /\ openaiMessages' = other.h.openaiMessages
                /\ state' = other.h.state
       /\ SubSeq(openaiMessages', 1, Len(openaiMessages)) = openaiMessages]_vars

C33_Witness ==
    /\ Delivered({"actions/force"}, {IDLE})
    /\ Decoded(last.text).value.data.ephemeral_context
    /\ Decoded(last.text).value.data.state = "s"
    /\ state.id = THINKING
    /\ Len(openaiMessages) = 6
    /\ openaiMessages[5].role = "tool"
    /\ openaiMessages[6] = openaiMessages[3]

\* A wake-up of main() handled a queued actions/force.
C33_WitnessDrained ==
    /\ last.op = "wake"
    /\ \E i \in 1..Len(last.drained) : last.drained[i].message.command = "actions/force"
    /\ IsForceTurn(openaiMessages[Len(openaiMessages)])

C35_PendingIdAgrees ==
    /\ (pendingActionId # NULL) <=> (state.id \in PendingIds)
    /\ state.id \in PendingIds => pendingActionId = state.action.data.id

\* Every assistant turn of the log that carries a tool call is followed by
\* a tool turn with the id of that tool call.
Answered(log) ==
    \A i \in 1..Len(log) :
        log[i].role = "assistant"
        => \A n \in 1..Len(log[i].tool_calls) :
              \E j \in (i + 1)..Len(log) :
                  /\ log[j].role = "tool"
                  /\ log[j].tool_call_id = log[i].tool_calls[n].id

\* C36: in the log sent with a request every assistant tool-call turn is
\* followed by a tool turn with the same tool-call id: no request is sent
\* while a tool call of the log is unanswered.
C36_NoUnansweredToolCall ==
    \A i \in 1..Len(inflight) : Answered(inflight[i].messages)

\* The last task ended with an exception thrown by the handling of a message
\* of this command: the text it received, or the last message it took from
\* the queue.
Threw(command) ==
    /\ last.op \in {"receive", "wake", "complete"}
    /\ last.threw
    /\ IF last.op = "receive"
       THEN Decoded(last.text).ok /\ Decoded(last.text).value.command = command
       ELSE /\ last.drained # <<>>
            /\ last.drained[Len(last.drained)].message.command = command

\* C37: the assertion of addActionResult never fails: no task ends with an
\* exception thrown by the handling of an action/result, received or taken
\* from the queue.
C37_ResultAssertionHolds == ~Threw("action/result")

\* C38: the assertion of addContext never fails: no task ends with an
\* exception thrown by the handling of a context message, received or
\* taken from the queue.
C38_ContextAssertionHolds == ~Threw("context")

\* The step delivers a message that is handled on arrival: the state is one
\* in which receiveMessage calls handleMessage, and no guard rejects it.
HandlesOnArrival ==
    /\ Delivers(Commands)
    /\ state.id \in {WAITING, IDLE, PENDING_ACTION, PENDING_FORCED_ACTION}
    /\ ~rejectedBeforeStartup(Handler, Decoded(last'.text).value)
    /\ ~rejectedWhilePending(Handler, Decoded(last'.text).value)

\* C39: messages are handled in arrival order: no message is handled while
\* a message that arrived before it is waiting in the queue.
C39_ArrivalOrder ==
    [][HandlesOnArrival => messageQueue = <<>>]_vars

\* C40: a request that completes with a stop and text changes only the
\* state, to Idle: nothing is sent, and log, action set, pending action and
\* queue are unchanged; the text is not appended to the log.  (A task in
\* which main(), resumed by the completion, takes messages from the queue
\* is not such a step: it also handles those messages.)
C40_StopFrame ==
    [][(/\ \E call \in 1..calls : Settles(call)
        /\ last'.op = "complete"
        /\ IsStop(last'.response)
        /\ last'.drained = <<>>)
       => /\ state' = [id |-> IDLE]
          /\ Len(inflight') = Len(inflight) - 1
          /\ UNCHANGED <<openaiMessages, actions, pendingActionId, messageQueue,
                         sent, game, calls, enqueued, dequeued>>]_vars

C40_Witness ==
    /\ last.op = "complete"
    /\ IsStop(last.response)
    /\ last.drained = <<>>
    /\ last.pre.id = THINKING
    /\ state.id = IDLE
    /\ messageQueue # <<>>
    /\ Len(openaiMessages) = 2
    /\ sent = <<>>

====
